---- MODULE Spec2Model ----
(***************************************************************************)
(* Model of src/Streamlit.py: the eight-step YouTube channel analysis      *)
(* pipeline.  Every operator interaction (a button click, an edit of a     *)
(* text field) starts one run of the whole script against                  *)
(* st.session_state; an action of this module is one such run, from the    *)
(* clicked handler to the rendering of the remaining tabs.  A run that     *)
(* ends in an uncaught exception stops where the exception is raised.      *)
(***************************************************************************)
EXTENDS Integers, Sequences, FiniteSets, TLC

VARIABLES
    session,            \* st.session_state: key -> value, NULL when the key is absent
    widgets,            \* values of the two unkeyed Step 6 text areas (lines 603, 606)
    last,               \* history: the interaction of the latest run and its outcome
    ever_commercialized,\* history: commercialization_result was stored at some point
    bvp_description,    \* history: the product description bvp_result was produced from
    max_videos,         \* get_channel_videos: the cap argument
    catalog,            \* the uploads playlist held by the API: number of videos
    video_ids,          \* get_channel_videos: ids collected so far
    next_page_token,    \* get_channel_videos: cursor of the next page, NoToken when none
    videos,             \* get_channel_videos: rows of the catalog table built so far
    batch_start,        \* get_channel_videos: loop variable i of the detail loop
    detail_requests,    \* get_channel_videos: the id lists of the videos().list requests sent
    failing_batch,      \* the videos().list request the API fails, by number (0: none)
    pc,                 \* get_channel_videos: position in the function
    videos_df,          \* get_recent_comments: the catalog table passed in
    threads,            \* the comment threads held by the API, per video
    days,               \* get_recent_comments: the window argument
    channel_name,       \* get_recent_comments: the author to leave out
    recent_videos,      \* get_recent_comments: video ids inside the window
    all_comments,       \* get_recent_comments: rows collected so far
    vid_index,          \* get_recent_comments: position of the video loop
    comment_page_token, \* get_recent_comments: cursor of the next page of the video
    cpc,                \* get_recent_comments: position in the function
    comment_text,       \* question filter: the text of one comment, as characters
    retained,           \* question filter: what the latest call decided for it
    filter_calls,       \* question filter: number of calls made
    doc_title,          \* create_blank_doc_in_folder: the title argument
    user_email,         \* create_blank_doc_in_folder: the identity to share with
    drive_answers,      \* how the Drive API answers the two requests of the call
    drive_files,        \* the documents held by the Drive folder
    doc_result,         \* create_blank_doc_in_folder: the pair returned
    rpc                 \* create_blank_doc_in_folder: position in the function

svars == <<session, widgets, last, ever_commercialized, bvp_description>>
vvars == <<max_videos, catalog, video_ids, next_page_token, videos, batch_start,
           detail_requests, failing_batch, pc>>
cvars == <<videos_df, threads, days, channel_name, recent_videos, all_comments,
           vid_index, comment_page_token, cpc>>
fvars == <<comment_text, retained, filter_calls>>
rvars == <<doc_title, user_email, drive_answers, drive_files, doc_result, rpc>>
vars == <<session, widgets, last, ever_commercialized, bvp_description,
          max_videos, catalog, video_ids, next_page_token, videos, batch_start,
          detail_requests, failing_batch, pc,
          videos_df, threads, days, channel_name, recent_videos, all_comments,
          vid_index, comment_page_token, cpc,
          comment_text, retained, filter_calls,
          doc_title, user_email, drive_answers, drive_files, doc_result, rpc>>

\* What a run of the script, or a call of one function, leaves alone.
beside_session == <<vvars, cvars, fvars, rvars>>
beside_videos == <<svars, cvars, fvars, rvars>>
beside_comments == <<svars, vvars, fvars, rvars>>
beside_filter == <<svars, vvars, cvars, rvars>>
beside_report == <<svars, vvars, cvars, fvars>>

(***************************************************************************)
(* Values                                                                  *)
(***************************************************************************)
NULL == "<absent>"

\* Texts a chat completion may return.
LLMTexts == {"r1"}

\* Texts the operator may type into a text area.
OperatorTexts == {"", "p1"}

\* Channel ids the operator may type: empty, two that resolve, one that does not.
ChannelInputs == {"", "UC1", "UC2", "UCx"}

\* Line 508: the fixed text stored when no comment is question-like.
PLACEHOLDER == "no_question_comments"

\* Abstract shapes of the two data frames.
\*   videos_df:   "empty" = pd.DataFrame([]) (no rows, no columns), "rows" otherwise
\*   comments_df: "empty" = pd.DataFrame([]), "noq" = rows none of which is
\*                question-like, "q" = rows some of which are question-like
VideoFrames == {"empty", "rows"}
CommentFrames == {"empty", "noq", "q"}

\* Inputs that only parameterise one request and are read nowhere else are
\* inputs of the action that sends it: the e-mail of the report (line 442),
\* the product category (lines 526, 562), the funnel stage pair (lines 684-685),
\* the comment window (line 488).  So is the text an insights text area
\* (lines 565-570, 618-623) holds when its button is clicked: the operator may
\* have left the default in it or typed anything over it.
Emails == {"", "user@example.com"}

Keys == {"channel_id", "uploads_id", "channel_title", "current_step", "gdoc_url",
         "videos_df", "comments_df",
         "channel_analysis_result", "comment_analysis_result",
         "insight_analysis_result", "commercialization_result",
         "bvp_result", "funnel_analysis_result",
         "final_product_description", "final_edited_insights"}

ArtifactKeys == {"channel_analysis_result", "comment_analysis_result",
                 "insight_analysis_result", "commercialization_result",
                 "bvp_result", "funnel_analysis_result"}

\* str.strip() leaves nothing.
IsBlank(t) == t \in {"", " "}

(***************************************************************************)
(* get_channel_info (lines 85-90)                                          *)
(***************************************************************************)
Resolves(id) == id \in {"UC1", "UC2"}
UploadsOf(id) == IF id = "UC1" THEN "UU1" ELSE "UU2"
TitleOf(id) == IF id = "UC1" THEN "Title1" ELSE "Title2"

(***************************************************************************)
(* Rendering: which blocks of the tabs are drawn for a session             *)
(***************************************************************************)
GdocExpanderVisible(s) == s.current_step >= 2 /\ s.gdoc_url = NULL

\* Step 4 drawn only for a pain-point artifact other than the placeholder.
Step4VisibleNeedsFindings(s) ==
    /\ ~(s.current_step < 4)
    /\ ~(s.channel_analysis_result = NULL \/ s.comment_analysis_result = NULL)
    /\ s.comment_analysis_result # PLACEHOLDER

Step4Visible(s) ==
    /\ ~(s.current_step < 4)
    /\ ~(s.channel_analysis_result = NULL \/ s.comment_analysis_result = NULL)

Step5Visible(s) ==
    /\ ~(s.current_step < 5)
    /\ s.insight_analysis_result # NULL

Step6Visible(s) ==
    /\ ~(s.current_step < 6)
    /\ s.insight_analysis_result # NULL

Step7Visible(s) ==
    /\ ~(s.current_step < 7)
    /\ ~(s.insight_analysis_result = NULL \/ s.bvp_result = NULL)

\* Line 602: the AI-suggested description is offered for editing.
DescFromAI(s) ==
    s.commercialization_result # NULL /\ s.commercialization_result # ""

\* Line 707: the gate of the Step 8 "summary and download" view.
Step8Shown(s) == ~(s.current_step < 6)

\* A widget drawn in this run keeps the value the operator gave it; a widget
\* that was not drawn in the previous run, or whose default changed, starts
\* from its default; the state of a widget that is not drawn is dropped.
WidgetValue(visible, old, default, defaultChanged) ==
    IF ~visible THEN NULL
    ELSE IF old = NULL \/ defaultChanged THEN default
    ELSE old

\* The part of a script run after the handlers: o is the session at the end of
\* the previous run, s the session after this run's handler, w the unkeyed
\* widget values of the previous run.
Render(o, s, w) ==
    LET ai    == WidgetValue(Step6Visible(s) /\ DescFromAI(s), w.desc_ai,
                             s.commercialization_result,
                             o.commercialization_result # s.commercialization_result)
        man   == WidgetValue(Step6Visible(s) /\ ~DescFromAI(s), w.desc_manual, "", FALSE)
        fpd   == IF Step6Visible(s)
                 THEN (IF DescFromAI(s) THEN ai ELSE man)
                 ELSE s.final_product_description
    IN  [session |-> [s EXCEPT !.final_product_description = fpd],
         widgets |-> [desc_ai |-> ai, desc_manual |-> man]]

\* Lines 634-636: the product description passed to the BVP request.
BvpCallDescription(s) == s.final_product_description

\* Lines 689-691: the product description passed to the funnel request.
FunnelCallDescription(s) == s.final_product_description

\* A run that executes to the end of the script: s is the session after the
\* handler, w the unkeyed widget values the browser sends with the run.
CompletesWith(s, w, button, outcome) ==
    LET r == Render(session, s, w)
    IN  /\ session' = r.session
        /\ widgets' = r.widgets
        /\ last' = [button |-> button, outcome |-> outcome]
        /\ ever_commercialized' =
              (ever_commercialized \/ r.session.commercialization_result # NULL)
        /\ bvp_description' =
              IF button = "openai_bvp_analysis" /\ outcome = "ok"
              THEN BvpCallDescription(session)
              ELSE IF r.session.bvp_result = NULL THEN NULL ELSE bvp_description
        /\ UNCHANGED beside_session

Completes(s, button, outcome) == CompletesWith(s, widgets, button, outcome)

\* A run stopped by an uncaught exception with the session as s.
Aborts(s, button) ==
    /\ session' = s
    /\ last' = [button |-> button, outcome |-> "failed"]
    /\ UNCHANGED <<widgets, ever_commercialized, bvp_description>>
    /\ UNCHANGED beside_session

(***************************************************************************)
(* Init: first run of the script (lines 382-383)                           *)
(***************************************************************************)
EmptySession == [k \in Keys |-> NULL]

SessionInit ==
    /\ session = [EmptySession EXCEPT !.current_step = 1]
    /\ widgets = [desc_ai |-> NULL, desc_manual |-> NULL]
    /\ last = [button |-> "none", outcome |-> "none"]
    /\ ever_commercialized = FALSE
    /\ bvp_description = NULL

(***************************************************************************)
(* Step 1 (lines 411-431)                                                  *)
(***************************************************************************)
\* Mutant of LockedSession: the report link is not among the deleted keys.
LockedSessionKeepsLink(s, id) ==
    [[k \in DOMAIN s |-> IF k = "gdoc_url" THEN s[k] ELSE NULL]
        EXCEPT !.channel_id = id,
               !.uploads_id = UploadsOf(id),
               !.channel_title = TitleOf(id),
               !.current_step = 2]

\* Lines 422-427: every key is deleted, then the four keys of the new lock are set.
\* A lock that leaves the cursor at Step 1.
LockedSessionAtStep1(s, id) ==
    [[k \in DOMAIN s |-> NULL] EXCEPT !.channel_id = id,
                                      !.uploads_id = UploadsOf(id),
                                      !.channel_title = TitleOf(id),
                                      !.current_step = 1]

LockedSession(s, id) ==
    [[k \in DOMAIN s |-> NULL] EXCEPT !.channel_id = id,
                                      !.uploads_id = UploadsOf(id),
                                      !.channel_title = TitleOf(id),
                                      !.current_step = 2]

\* Line 416 false: "enter a Channel ID first".
lock_channel_empty ==
    Completes(session, "lock_channel", "rejected")

\* Mutant of NotFoundSession: a failed lock sends the cursor back to Step 1.
NotFoundSessionReset(s) == [s EXCEPT !.current_step = 1]

\* Lines 419-420: only an error message is shown.
NotFoundSession(s) == s

\* Lines 418-420: the id resolves to no items.
lock_channel_notfound(id) ==
    /\ id # "" /\ ~Resolves(id)
    /\ Completes(NotFoundSession(session), "lock_channel", "notfound")

\* Line 87: the channels request raises.
lock_channel_error(id) ==
    /\ id # ""
    /\ Aborts(session, "lock_channel")

\* Lines 421-428.
lock_channel_ok(id) ==
    /\ id # "" /\ Resolves(id)
    /\ Completes(LockedSession(session, id), "lock_channel", "ok")

(***************************************************************************)
(* Step 2 (lines 433-479)                                                  *)
(***************************************************************************)
Step2Visible(s) == ~(s.current_step < 2)

\* Lines 443-445: the e-mail field is empty.
create_gdoc_rejected ==
    /\ Step2Visible(session) /\ GdocExpanderVisible(session)
    /\ Completes(session, "create_gdoc", "rejected")

\* Lines 449-451: create_blank_doc_in_folder returns an error.
create_gdoc_error(email) ==
    /\ Step2Visible(session) /\ GdocExpanderVisible(session)
    /\ email # ""
    /\ Completes(session, "create_gdoc", "error")

\* Lines 452-454: the link is stored and the script is run again.
create_gdoc_ok(email) ==
    /\ Step2Visible(session) /\ GdocExpanderVisible(session)
    /\ email # ""
    /\ Completes([session EXCEPT !.gdoc_url = "url"], "create_gdoc", "ok")

\* The fetch button drawn whether or not a catalog is in the session.
FetchVideosAlwaysAvailable(s) == Step2Visible(s)

\* Lines 455-456: the fetch button is drawn only without a catalog.
FetchVideosAvailable(s) == Step2Visible(s) /\ s.videos_df = NULL

\* Lines 455-459.
fetch_videos_ok(df) ==
    /\ FetchVideosAvailable(session)
    /\ Completes([session EXCEPT !.videos_df = df], "fetch_videos", "ok")

\* Line 458: get_channel_videos raises (a playlistItems or videos request fails).
fetch_videos_error ==
    /\ FetchVideosAvailable(session)
    /\ Aborts(session, "fetch_videos")

\* Mutant of ChannelAnalysisAvailable: the button is drawn without a catalog.
ChannelAnalysisUngated(s) == ~(s.current_step < 2)

\* Lines 461, 471: the analysis button is drawn only with a catalog.
ChannelAnalysisAvailable(s) == Step2Visible(s) /\ s.videos_df # NULL

\* Lines 471-473.
openai_channel_analysis_ok(t) ==
    /\ ChannelAnalysisAvailable(session)
    /\ Completes([session EXCEPT !.channel_analysis_result = t],
                 "openai_channel_analysis", "ok")

\* Line 170 raises.
openai_channel_analysis_error ==
    /\ ChannelAnalysisAvailable(session)
    /\ Aborts(session, "openai_channel_analysis")

\* Mutant of GotoStep3Cursor: the button unlocks one step too many.
GotoStep3CursorTooFar(s) == 4

\* Line 478: the cursor set by "go to next step" of Step 2.
GotoStep3Cursor(s) == 3

\* Lines 477-479.
goto_step3 ==
    /\ ChannelAnalysisAvailable(session)
    /\ session.channel_analysis_result # NULL
    /\ Completes([session EXCEPT !.current_step = GotoStep3Cursor(session)],
                 "goto_step3", "ok")

(***************************************************************************)
(* Step 3 (lines 482-515)                                                  *)
(***************************************************************************)
Step3Visible(s) == ~(s.current_step < 3)

\* Line 490: the warning branch of fetch_comments.
Step3PrerequisiteMissing(s) == Step3Visible(s) /\ s.videos_df = NULL

\* Lines 491-493.  get_recent_comments needs the publishedAt column.
fetch_comments_ok(df) ==
    /\ Step3Visible(session) /\ session.videos_df = "rows"
    /\ Completes([session EXCEPT !.comments_df = df], "fetch_comments", "ok")

\* Line 119 on pd.DataFrame([]): no publishedAt column, KeyError.
fetch_comments_error ==
    /\ Step3Visible(session) /\ session.videos_df = "empty"
    /\ Aborts(session, "fetch_comments")

\* Lines 495, 504: the analysis button is drawn only with a comment set.
CommentAnalysisAvailable(s) == Step3Visible(s) /\ s.comments_df # NULL

\* Line 507 on pd.DataFrame([]): no text column, KeyError.
openai_comment_analysis_keyerror ==
    /\ CommentAnalysisAvailable(session) /\ session.comments_df = "empty"
    /\ Aborts(session, "openai_comment_analysis")

\* Line 508: no question-like comment; the placeholder is stored, no LLM call.
openai_comment_analysis_placeholder ==
    /\ CommentAnalysisAvailable(session) /\ session.comments_df = "noq"
    /\ Completes([session EXCEPT !.comment_analysis_result = PLACEHOLDER],
                 "openai_comment_analysis", "placeholder")

\* Lines 509-510.
openai_comment_analysis_ok(t) ==
    /\ CommentAnalysisAvailable(session) /\ session.comments_df = "q"
    /\ Completes([session EXCEPT !.comment_analysis_result = t],
                 "openai_comment_analysis", "ok")

\* Line 187 raises.
openai_comment_analysis_error ==
    /\ CommentAnalysisAvailable(session) /\ session.comments_df = "q"
    /\ Aborts(session, "openai_comment_analysis")

\* Lines 513-515.
goto_step4 ==
    /\ CommentAnalysisAvailable(session)
    /\ session.comment_analysis_result # NULL
    /\ Completes([session EXCEPT !.current_step = 4], "goto_step4", "ok")

(***************************************************************************)
(* Step 4 (lines 517-550)                                                  *)
(***************************************************************************)
\* Lines 523-524: the warning branch of Step 4.
Step4PrerequisiteMissing(s) ==
    /\ ~(s.current_step < 4)
    /\ (s.channel_analysis_result = NULL \/ s.comment_analysis_result = NULL)

\* Lines 518-528: the insight button is drawn.
InsightAvailable(s) == Step4Visible(s)

\* Lines 528-530.
openai_insight_analysis_ok(t) ==
    /\ InsightAvailable(session)
    /\ Completes([session EXCEPT !.insight_analysis_result = t],
                 "openai_insight_analysis", "ok")

\* Line 220 raises.
openai_insight_analysis_error ==
    /\ InsightAvailable(session)
    /\ Aborts(session, "openai_insight_analysis")

\* Line 541: the cursor set by "run Step 5".
GotoStep5Cursor(s) == 5

\* Lines 540-542.
goto_step5 ==
    /\ Step4Visible(session) /\ session.insight_analysis_result # NULL
    /\ Completes([session EXCEPT !.current_step = GotoStep5Cursor(session)],
                 "goto_step5", "ok")

\* A skip that also drops the BVP artifact.
SkipStep5SessionDropsBvp(s) ==
    [s EXCEPT !.current_step = 6, !.commercialization_result = NULL,
              !.bvp_result = NULL]

\* Lines 546-549: the session after "skip to Step 6".
SkipStep5Session(s) ==
    [s EXCEPT !.current_step = 6, !.commercialization_result = NULL]

\* Lines 545-550.
skip_step5 ==
    /\ Step4Visible(session) /\ session.insight_analysis_result # NULL
    /\ Completes(SkipStep5Session(session), "skip_step5", "ok")

(***************************************************************************)
(* Step 5 (lines 553-583)                                                  *)
(***************************************************************************)
\* Lines 559-560: the warning branch of Step 5.
Step5PrerequisiteMissing(s) ==
    ~(s.current_step < 5) /\ s.insight_analysis_result = NULL

\* Lines 565-570, 616-623: what an insights text area can hold.
InsightsTexts(s) == OperatorTexts \cup {s.insight_analysis_result}

\* Lines 573-574: blank insights.
openai_commercialization_analysis_rejected(edited_insights) ==
    /\ Step5Visible(session)
    /\ IsBlank(edited_insights)
    /\ Completes(session, "openai_commercialization_analysis", "rejected")

\* Lines 575-577.
openai_commercialization_analysis_ok(edited_insights, t) ==
    /\ Step5Visible(session)
    /\ ~IsBlank(edited_insights)
    /\ Completes([session EXCEPT !.commercialization_result = t],
                 "openai_commercialization_analysis", "ok")

\* Line 258 raises.
openai_commercialization_analysis_error(edited_insights) ==
    /\ Step5Visible(session)
    /\ ~IsBlank(edited_insights)
    /\ Aborts(session, "openai_commercialization_analysis")

\* Lines 581-583.
goto_step6_from5 ==
    /\ Step5Visible(session) /\ session.commercialization_result # NULL
    /\ Completes([session EXCEPT !.current_step = 6], "goto_step6_from5", "ok")

(***************************************************************************)
(* Step 6 (lines 586-648)                                                  *)
(***************************************************************************)
\* Lines 592-593: the warning branch of Step 6.
Step6PrerequisiteMissing(s) ==
    ~(s.current_step < 6) /\ s.insight_analysis_result = NULL

\* Lines 601-606: the product description text area that is drawn.
edit_product_description(t) ==
    /\ Step6Visible(session)
    /\ t # session.final_product_description
    /\ CompletesWith(session,
                     IF DescFromAI(session)
                     THEN [widgets EXCEPT !.desc_ai = t]
                     ELSE [widgets EXCEPT !.desc_manual = t],
                     "product_description", "edited")

\* Mutant of BvpInputsAccepted: the request also wants a monetization artifact.
BvpInputsNeedMonetization(s, edited_insights) ==
    /\ ~(IsBlank(edited_insights) \/ IsBlank(s.final_product_description))
    /\ s.commercialization_result # NULL

\* A test that looks at the insights only.
BvpInputsIgnoreDescription(s, edited_insights) == ~IsBlank(edited_insights)

\* Line 629: the inputs the BVP request accepts.
BvpInputsAccepted(s, edited_insights) ==
    ~(IsBlank(edited_insights) \/ IsBlank(s.final_product_description))

\* Lines 629-630.
openai_bvp_analysis_rejected(edited_insights) ==
    /\ Step6Visible(session)
    /\ ~BvpInputsAccepted(session, edited_insights)
    /\ Completes(session, "openai_bvp_analysis", "rejected")

\* Line 633: stored before the LLM call is issued.
BvpPrepared(s, edited_insights) ==
    [s EXCEPT !.final_edited_insights = edited_insights]

\* Lines 631-638.
openai_bvp_analysis_ok(edited_insights, t) ==
    /\ Step6Visible(session)
    /\ BvpInputsAccepted(session, edited_insights)
    /\ Completes([BvpPrepared(session, edited_insights) EXCEPT !.bvp_result = t],
                 "openai_bvp_analysis", "ok")

\* Line 290 raises, after line 633.
openai_bvp_analysis_error(edited_insights) ==
    /\ Step6Visible(session)
    /\ BvpInputsAccepted(session, edited_insights)
    /\ Aborts(BvpPrepared(session, edited_insights), "openai_bvp_analysis")

\* Lines 646-648.
goto_step7 ==
    /\ Step6Visible(session) /\ session.bvp_result # NULL
    /\ Completes([session EXCEPT !.current_step = 7], "goto_step7", "ok")

(***************************************************************************)
(* Step 7 (lines 651-703)                                                  *)
(***************************************************************************)
\* Lines 657-658: the warning branch of Step 7.
Step7PrerequisiteMissing(s) ==
    /\ ~(s.current_step < 7)
    /\ (s.insight_analysis_result = NULL \/ s.bvp_result = NULL)

\* Lines 688-698.
openai_funnel_analysis_ok(t) ==
    /\ Step7Visible(session)
    /\ Completes([session EXCEPT !.funnel_analysis_result = t],
                 "openai_funnel_analysis", "ok")

\* Line 349 raises.
openai_funnel_analysis_error ==
    /\ Step7Visible(session)
    /\ Aborts(session, "openai_funnel_analysis")

\* Lines 701-703.
goto_step8 ==
    /\ Step7Visible(session) /\ session.funnel_analysis_result # NULL
    /\ Completes([session EXCEPT !.current_step = 8], "goto_step8", "ok")

(***************************************************************************)
(* The session state machine                                               *)
(***************************************************************************)
Next ==
    \/ lock_channel_empty
    \/ \E id \in ChannelInputs : lock_channel_notfound(id)
    \/ \E id \in ChannelInputs : lock_channel_error(id)
    \/ \E id \in ChannelInputs : lock_channel_ok(id)
    \/ create_gdoc_rejected
    \/ \E e \in Emails : create_gdoc_error(e)
    \/ \E e \in Emails : create_gdoc_ok(e)
    \/ \E df \in VideoFrames : fetch_videos_ok(df)
    \/ fetch_videos_error
    \/ \E t \in LLMTexts : openai_channel_analysis_ok(t)
    \/ openai_channel_analysis_error
    \/ goto_step3
    \/ \E df \in CommentFrames : fetch_comments_ok(df)
    \/ fetch_comments_error
    \/ openai_comment_analysis_keyerror
    \/ openai_comment_analysis_placeholder
    \/ \E t \in LLMTexts : openai_comment_analysis_ok(t)
    \/ openai_comment_analysis_error
    \/ goto_step4
    \/ \E t \in LLMTexts : openai_insight_analysis_ok(t)
    \/ openai_insight_analysis_error
    \/ goto_step5
    \/ skip_step5
    \/ \E i \in InsightsTexts(session) : openai_commercialization_analysis_rejected(i)
    \/ \E i \in InsightsTexts(session), t \in LLMTexts :
          openai_commercialization_analysis_ok(i, t)
    \/ \E i \in InsightsTexts(session) : openai_commercialization_analysis_error(i)
    \/ goto_step6_from5
    \/ \E t \in OperatorTexts : edit_product_description(t)
    \/ \E i \in InsightsTexts(session) : openai_bvp_analysis_rejected(i)
    \/ \E i \in InsightsTexts(session), t \in LLMTexts : openai_bvp_analysis_ok(i, t)
    \/ \E i \in InsightsTexts(session) : openai_bvp_analysis_error(i)
    \/ goto_step7
    \/ \E t \in LLMTexts : openai_funnel_analysis_ok(t)
    \/ openai_funnel_analysis_error
    \/ goto_step8

(***************************************************************************)
(* Quiescent values of the variables of the functions modelled step by     *)
(* step below, for the specifications in which they are not called         *)
(***************************************************************************)
\* No call of get_recent_comments is in progress.
CommentsIdle ==
    /\ videos_df = <<>> /\ threads = <<>> /\ days = 180 /\ channel_name = ""
    /\ recent_videos = <<>> /\ all_comments = <<>> /\ vid_index = 1
    /\ comment_page_token = 0 /\ cpc = "idle"

\* No comment is being filtered.
FilterIdle == comment_text = <<>> /\ retained = "unfiltered" /\ filter_calls = 0

\* No call of create_blank_doc_in_folder is in progress.
ReportIdle ==
    /\ doc_title = <<>> /\ user_email = "" /\ drive_answers = <<>>
    /\ drive_files = {} /\ doc_result = <<>> /\ rpc = "idle"

(***************************************************************************)
(* get_channel_videos (lines 93-114), one step per API request             *)
(***************************************************************************)
\* Bounds of the inputs: catalog sizes 0..MaxCatalog, caps 1..MaxCap and the default.
MaxCatalog == 120
MaxCap == 60

\* Line 93: max_videos=1000.
DefaultMaxVideos == 1000
\* Line 98: maxResults=50.
PageSize == 50
\* Lines 108-109: range(..., 50) and video_ids[i:i+50].
BatchSize == 50
\* Line 94: next_page_token = None.
NoToken == 0

Caps == (1..MaxCap) \cup {DefaultMaxVideos}

Min(a, b) == IF a < b THEN a ELSE b

\* The uploads playlist holds the videos 1..catalog; a page token is the
\* number of items before the page.
PageOffset(token) == IF token = NoToken THEN 0 ELSE token

\* playlistItems().list(...).execute()['items'] (lines 98-100).
PageItems(n, token) ==
    [k \in 1..Min(PageSize, n - PageOffset(token)) |-> PageOffset(token) + k]

\* pl_response.get("nextPageToken") (line 101).
PageNextToken(n, token) ==
    IF PageOffset(token) + PageSize < n THEN PageOffset(token) + PageSize ELSE NoToken

\* A loop that ends on the cap alone.
PagingDoneIgnoresCursor(token, ids, cap) == Len(ids) >= cap

\* Line 105: the loop over the pages ends.
PagingDone(token, ids, cap) == token = NoToken \/ Len(ids) >= cap

\* Line 108: the upper end of range(0, min(len(video_ids), max_videos), 50).
DetailLimit(ids, cap) == Min(Len(ids), cap)

\* A slice that starts one id late.
BatchSkipsFirst(ids, i) == SubSeq(ids, i + 2, Min(i + BatchSize, Len(ids)))

\* A slice that runs one id past the batch.
BatchOverlong(ids, i) == SubSeq(ids, i + 1, Min(i + BatchSize + 1, Len(ids)))

\* Line 109: batch = video_ids[i:i+50].
Batch(ids, i) == SubSeq(ids, i + 1, Min(i + BatchSize, Len(ids)))

\* Lines 110-113: videos().list answers with one item per id of the batch.
BatchRows(batch) == batch

\* Lines 98-105: one pass of the paging loop.
FetchPage ==
    /\ pc = "paging"
    /\ LET ids == video_ids \o PageItems(catalog, next_page_token)
           token == PageNextToken(catalog, next_page_token)
       IN  /\ video_ids' = ids
           /\ next_page_token' = token
           /\ pc' = IF PagingDone(token, ids, max_videos) THEN "details" ELSE "paging"
    /\ UNCHANGED <<max_videos, catalog, videos, batch_start, detail_requests,
                   failing_batch>>
    /\ UNCHANGED beside_videos

\* Line 111: v_request.execute() raises for the request about to be sent.
RequestFails(sent, failing) == Len(sent) + 1 = failing

\* Lines 108-113: one pass of the detail loop.
FetchBatch ==
    /\ pc = "details"
    /\ batch_start < DetailLimit(video_ids, max_videos)
    /\ ~RequestFails(detail_requests, failing_batch)
    /\ detail_requests' = Append(detail_requests, Batch(video_ids, batch_start))
    /\ videos' = videos \o BatchRows(Batch(video_ids, batch_start))
    /\ batch_start' = batch_start + BatchSize
    /\ UNCHANGED <<max_videos, catalog, video_ids, next_page_token, failing_batch, pc>>
    /\ UNCHANGED beside_videos

\* Line 111 raises: nothing in the function catches it, so the call ends with
\* the exception and the rows built so far are lost with its locals.
FetchBatchFails ==
    /\ pc = "details"
    /\ batch_start < DetailLimit(video_ids, max_videos)
    /\ RequestFails(detail_requests, failing_batch)
    /\ detail_requests' = Append(detail_requests, Batch(video_ids, batch_start))
    /\ pc' = "raised"
    /\ UNCHANGED <<max_videos, catalog, video_ids, next_page_token, videos, batch_start,
                   failing_batch>>
    /\ UNCHANGED beside_videos

\* Line 114: the detail loop is exhausted and the table is returned.
ReturnVideos ==
    /\ pc = "details"
    /\ ~(batch_start < DetailLimit(video_ids, max_videos))
    /\ pc' = "done"
    /\ UNCHANGED <<max_videos, catalog, video_ids, next_page_token, videos, batch_start,
                   detail_requests, failing_batch>>
    /\ UNCHANGED beside_videos

InitVideos ==
    /\ SessionInit
    /\ max_videos \in Caps
    /\ catalog \in 0..MaxCatalog
    /\ video_ids = <<>>
    /\ next_page_token = NoToken
    /\ videos = <<>>
    /\ batch_start = 0
    /\ detail_requests = <<>>
    /\ failing_batch \in 0..((MaxCatalog + BatchSize - 1) \div BatchSize)
    /\ pc = "paging"
    /\ CommentsIdle
    /\ FilterIdle
    /\ ReportIdle

NextVideos == FetchPage \/ FetchBatch \/ FetchBatchFails \/ ReturnVideos

SpecVideos == InitVideos /\ [][NextVideos]_vars

\* get_channel_videos is sequential code and each request it sends returns or
\* raises: a call that can take a step takes one.
SpecVideosFair == InitVideos /\ [][NextVideos]_vars /\ WF_vars(NextVideos)

\* No call of get_channel_videos is in progress.
VideosIdle ==
    /\ max_videos = DefaultMaxVideos /\ catalog = 0 /\ video_ids = <<>>
    /\ next_page_token = NoToken /\ videos = <<>> /\ batch_start = 0
    /\ detail_requests = <<>> /\ failing_batch = 0 /\ pc = "idle"

(***************************************************************************)
(* get_recent_comments (lines 117-137), one step per API request           *)
(***************************************************************************)
\* Bound of the input: a video has 1..MaxPages pages of comment threads.
MaxPages == 2

\* Line 118: datetime.now(timezone.utc), as a day number.
Now == 1000

\* Line 488: the window is 7..3650 days, 180 unless changed.
Windows == {7, 180}

\* Publish dates: on the cutoff of the short window, one day older, and one
\* day older than the cutoff of the long window.
PublishDates == {Now - 7, Now - 8, Now - 181}

CatalogIds == <<"v1", "v2">>

\* Line 492: channel_name is the channel title; None (the default) is "".
ChannelNames == {"", "Title1"}

\* authorDisplayName of the comments on the pages.
PageKinds == {<<"Fan">>, <<"Title1", "Fan">>}

\* The threads of a video: its pages, and the page whose request raises (0: none).
ThreadsOfVideo ==
    UNION {[pages : [1..n -> PageKinds], fails : 0..n] : n \in 1..MaxPages}

\* Line 118.
Cutoff(d) == Now - d

\* A window that keeps only the videos published on the cutoff or before it.
QualifiesOnlyOlder(publishedAt, d) == publishedAt <= Cutoff(d)

\* Line 119: videos_df['publishedAt'] >= cutoff_date.
Qualifies(publishedAt, d) == publishedAt >= Cutoff(d)

\* Lines 119, 122: recent_videos['video_id'].
RecentVideos(df, d) ==
    LET rows == SelectSeq(df, LAMBDA r : Qualifies(r.publishedAt, d))
    IN  [k \in 1..Len(rows) |-> rows[k].video_id]

\* Lines 126-127: the request for the page after `token` raises.
PageFails(vid, token) == threads[vid].fails = PageOffset(token) + 1

\* Line 128: c_response['items'].
CommentItems(vid, token) == threads[vid].pages[PageOffset(token) + 1]

\* Line 132: c_response.get("nextPageToken").
CommentNextToken(vid, token) ==
    IF PageOffset(token) + 1 < Len(threads[vid].pages)
    THEN PageOffset(token) + 1 ELSE NoToken

\* A filter that leaves nobody out.
ExcludedNobody(name, author) == FALSE

\* Line 130: channel_name and comment['authorDisplayName'] == channel_name.
Excluded(name, author) == name # "" /\ author = name

\* Line 131: the row of the k-th comment of a page; id stands for its
\* published_at, like_count and text.
CommentRow(vid, token, k, author) ==
    [video_id |-> vid, author |-> author, id |-> <<PageOffset(token) + 1, k>>]

\* Lines 128-131: the rows one page adds to all_comments.
PageRows(vid, token, name) ==
    LET items == CommentItems(vid, token)
        rows == [k \in 1..Len(items) |-> CommentRow(vid, token, k, items[k])]
    IN  SelectSeq(rows, LAMBDA r : ~Excluded(name, r.author))

\* Lines 118-119, 122.
SelectRecentVideos ==
    /\ cpc = "start"
    /\ recent_videos' = RecentVideos(videos_df, days)
    /\ cpc' = "loop"
    /\ UNCHANGED <<videos_df, threads, days, channel_name, all_comments, vid_index,
                   comment_page_token>>
    /\ UNCHANGED beside_comments

\* Lines 126-133: one page fetched; after the last page the loop moves on.
FetchCommentPage ==
    /\ cpc = "loop" /\ vid_index <= Len(recent_videos)
    /\ LET vid == recent_videos[vid_index]
           token == CommentNextToken(vid, comment_page_token)
       IN  /\ ~PageFails(vid, comment_page_token)
           /\ all_comments' = all_comments \o PageRows(vid, comment_page_token, channel_name)
           /\ comment_page_token' = token
           /\ vid_index' = IF token = NoToken THEN vid_index + 1 ELSE vid_index
    /\ UNCHANGED <<videos_df, threads, days, channel_name, recent_videos, cpc>>
    /\ UNCHANGED beside_comments

\* Lines 127, 134: the request raises, `continue` moves to the next video.
FetchCommentPageFails ==
    /\ cpc = "loop" /\ vid_index <= Len(recent_videos)
    /\ PageFails(recent_videos[vid_index], comment_page_token)
    /\ comment_page_token' = NoToken
    /\ vid_index' = vid_index + 1
    /\ UNCHANGED <<videos_df, threads, days, channel_name, recent_videos, all_comments, cpc>>
    /\ UNCHANGED beside_comments

\* Line 137.
ReturnComments ==
    /\ cpc = "loop" /\ ~(vid_index <= Len(recent_videos))
    /\ cpc' = "done"
    /\ UNCHANGED <<videos_df, threads, days, channel_name, recent_videos, all_comments,
                   vid_index, comment_page_token>>
    /\ UNCHANGED beside_comments

\* Lines 124-134 for one video, as a function of the rows collected before it.
RECURSIVE CollectVideo(_, _, _, _)
CollectVideo(vid, token, name, acc) ==
    IF PageFails(vid, token) THEN acc
    ELSE LET rows == acc \o PageRows(vid, token, name)
             next == CommentNextToken(vid, token)
         IN  IF next = NoToken THEN rows ELSE CollectVideo(vid, next, name, rows)

\* Lines 122-135 from the i-th qualifying video on.
RECURSIVE CollectFrom(_, _, _, _)
CollectFrom(recent, i, name, acc) ==
    IF i > Len(recent) THEN acc
    ELSE CollectFrom(recent, i + 1, name, CollectVideo(recent[i], NoToken, name, acc))

\* Lines 117-137 as a function of its arguments.
get_recent_comments(df, d, name) == CollectFrom(RecentVideos(df, d), 1, name, <<>>)

InitComments ==
    /\ SessionInit
    /\ VideosIdle
    /\ videos_df \in {[k \in 1..Len(CatalogIds) |->
                          [video_id |-> CatalogIds[k], publishedAt |-> dates[k]]] :
                      dates \in [1..Len(CatalogIds) -> PublishDates]}
    /\ threads \in [{CatalogIds[k] : k \in 1..Len(CatalogIds)} -> ThreadsOfVideo]
    /\ days \in Windows
    /\ channel_name \in ChannelNames
    /\ recent_videos = <<>>
    /\ all_comments = <<>>
    /\ vid_index = 1
    /\ comment_page_token = NoToken
    /\ cpc = "start"
    /\ FilterIdle
    /\ ReportIdle

NextComments ==
    SelectRecentVideos \/ FetchCommentPage \/ FetchCommentPageFails \/ ReturnComments

SpecComments == InitComments /\ [][NextComments]_vars

(***************************************************************************)
(* The question filter of Step 3 (lines 506-507)                           *)
(***************************************************************************)
\* Bounds of the input: a text is made of at most MaxParts parts; the filter
\* is called up to MaxCalls times on it.
MaxParts == 3
MaxCalls == 2

\* A character is written as a short name:
\*   "?" U+003F, "?f" U+FF1F, "zen" U+600E, "me_t" U+9EBC, "me_s" U+4E48,
\*   "ru" U+5982, "he" U+4F55, "wei_t" U+70BA, "wei_s" U+4E3A, "shen" U+4EC0,
\*   "ma_t" U+55CE, "ma_s" U+5417, "neng" U+80FD, "bu" U+4E0D, "ke" U+53EF,
\*   "yi" U+4EE5; "zan", "zhe", "ge" are characters of no pattern;
\*   "\\" and "|" are the backslash and the bar of the pattern.
\* Line 506: question_patterns, character by character.
question_patterns ==
    <<"\\", "?", "|", "?f", "|", "zen", "me_t", "|", "ru", "he", "|",
      "wei_t", "shen", "me_t", "|", "ma_t", "|", "neng", "bu", "neng", "|",
      "ke", "bu", "ke", "yi", "|", "zen", "me_s", "|",
      "wei_s", "shen", "me_s", "|", "ma_s">>

\* A missing text (NaN) in the text column.
NaN == <<"<NaN>">>

\* Pieces the texts of the comments are made of: words that ask, parts of
\* such words, and words that do not ask.
TextParts ==
    {<<"?">>, <<"?f">>, <<"zen", "me_t">>, <<"ru", "he">>, <<"wei_t", "shen", "me_t">>,
     <<"ma_t">>, <<"neng", "bu", "neng">>, <<"ke", "bu", "ke", "yi">>,
     <<"zen", "me_s">>, <<"wei_s", "shen", "me_s">>, <<"ma_s">>,
     <<"zen">>, <<"me_t">>, <<"wei_t", "shen">>, <<"ke", "bu", "ke">>, <<"yi">>,
     <<"neng", "bu">>, <<"zan">>, <<"zhe", "ge">>}

RECURSIVE Flatten(_)
Flatten(parts) == IF parts = <<>> THEN <<>> ELSE Head(parts) \o Flatten(Tail(parts))

\* comment['textDisplay'] (line 131).
Texts == {Flatten(parts) : parts \in UNION {[1..n -> TextParts] : n \in 0..MaxParts}}

\* The alternatives of a pattern made of literals, escaped literals and bars
\* (re syntax): the bar separates, the backslash makes the next character literal.
RECURSIVE Alternatives(_, _, _)
Alternatives(pattern, i, current) ==
    IF i > Len(pattern) THEN <<current>>
    ELSE IF pattern[i] = "\\"
         THEN Alternatives(pattern, i + 2, Append(current, pattern[i + 1]))
    ELSE IF pattern[i] = "|"
         THEN <<current>> \o Alternatives(pattern, i + 1, <<>>)
    ELSE Alternatives(pattern, i + 1, Append(current, pattern[i]))

\* The alternative matches the text from position i on.
MatchesAt(alternative, text, i) ==
    /\ i + Len(alternative) - 1 <= Len(text)
    /\ \A j \in 1..Len(alternative) : text[i + j - 1] = alternative[j]

\* re.search: some alternative matches at some position.
Search(pattern, text) ==
    LET alts == Alternatives(pattern, 1, <<>>)
    IN  \E i \in 1..(Len(text) + 1) : \E a \in 1..Len(alts) : MatchesAt(alts[a], text, i)

\* A test that asks the whole text to be one alternative.
StrFullMatch(text, pattern, na) ==
    IF text = NaN THEN na
    ELSE LET alts == Alternatives(pattern, 1, <<>>)
         IN  \E a \in 1..Len(alts) : text = alts[a]

\* Line 507: Series.str.contains(pattern, na=na, regex=True) for one text.
StrContains(text, pattern, na) ==
    IF text = NaN THEN na ELSE Search(pattern, text)

\* Line 507: the row of the comment is, or is not, in questions_df.
FilterQuestions ==
    /\ filter_calls < MaxCalls
    /\ retained' = IF StrContains(comment_text, question_patterns, FALSE)
                   THEN "kept" ELSE "dropped"
    /\ filter_calls' = filter_calls + 1
    /\ UNCHANGED comment_text
    /\ UNCHANGED beside_filter

InitFilter ==
    /\ SessionInit
    /\ VideosIdle
    /\ CommentsIdle
    /\ comment_text \in Texts \cup {NaN}
    /\ retained = "unfiltered"
    /\ filter_calls = 0
    /\ ReportIdle

NextFilter == FilterQuestions

SpecFilter == InitFilter /\ [][NextFilter]_vars

(***************************************************************************)
(* create_blank_doc_in_folder (lines 352-374), called by the create_gdoc   *)
(* handler (lines 443-454); one step per Drive request                     *)
(***************************************************************************)
\* Line 380: SHARED_FOLDER_ID.
SHARED_FOLDER_ID == "folder"

\* Messages an error of the Drive API may carry.
ErrorMessages == {"forbidden", "unavailable"}

\* Answers to files().create (line 361): a file with its id and link, a file
\* without an id, an HttpError, any other exception (the credentials of lines
\* 355-358 included).
CreateAnswers ==
    {[kind |-> "ok", message |-> ""], [kind |-> "no_id", message |-> ""]}
    \cup [kind : {"http_error", "error"}, message : ErrorMessages]

\* Answers to permissions().create (line 367).
PermissionAnswers ==
    {[kind |-> "ok", message |-> ""]}
    \cup [kind : {"http_error", "error"}, message : ErrorMessages]

\* Line 447: doc_title, the date being that of the run.
DocTitle(s) == <<s.channel_title, "_AI_report_", "today">>

\* Lines 360-361: the document files().create makes from file_metadata: a
\* name, a type, a parent folder, and no content.
NewDocument(title, folder_id) ==
    [name |-> title, parents |-> {folder_id}, webViewLink |-> "url",
     text |-> <<>>, writers |-> {}]

\* Line 368: return doc_url, None.
SuccessResult(doc_url) ==
    [doc_url |-> doc_url, error |-> NULL, message |-> ""]

\* Line 364: return None, "no Document ID".
NoIdResult == [doc_url |-> NULL, error |-> "no_document_id", message |-> ""]

\* Lines 369-374: return None, "creating the Google Docs failed: <message>".
FailureResult(message) ==
    [doc_url |-> NULL, error |-> "create_docs_failed", message |-> message]

\* Lines 360-363: the document is created.
CreateFile ==
    /\ rpc = "start" /\ drive_answers.create.kind = "ok"
    /\ drive_files' = drive_files \cup {NewDocument(doc_title, SHARED_FOLDER_ID)}
    /\ rpc' = "created"
    /\ UNCHANGED <<doc_title, user_email, drive_answers, doc_result>>
    /\ UNCHANGED beside_report

\* Line 364: the answer carries no id.
CreateFileNoId ==
    /\ rpc = "start" /\ drive_answers.create.kind = "no_id"
    /\ drive_files' = drive_files \cup {NewDocument(doc_title, SHARED_FOLDER_ID)}
    /\ doc_result' = NoIdResult
    /\ rpc' = "done"
    /\ UNCHANGED <<doc_title, user_email, drive_answers>>
    /\ UNCHANGED beside_report

\* Lines 355-361 raise: lines 369-374.
CreateFileFails ==
    /\ rpc = "start" /\ drive_answers.create.kind \in {"http_error", "error"}
    /\ doc_result' = FailureResult(drive_answers.create.message)
    /\ rpc' = "done"
    /\ UNCHANGED <<doc_title, user_email, drive_answers, drive_files>>
    /\ UNCHANGED beside_report

\* Lines 365-367: the document is shared with user_email as a writer.
GrantAccess ==
    /\ rpc = "created" /\ user_email # "" /\ drive_answers.permission.kind = "ok"
    /\ drive_files' = {[f EXCEPT !.writers = f.writers \cup {user_email}] : f \in drive_files}
    /\ rpc' = "shared"
    /\ UNCHANGED <<doc_title, user_email, drive_answers, doc_result>>
    /\ UNCHANGED beside_report

\* Line 367 raises: lines 369-374.
GrantAccessFails ==
    /\ rpc = "created" /\ user_email # "" /\ drive_answers.permission.kind # "ok"
    /\ doc_result' = FailureResult(drive_answers.permission.message)
    /\ rpc' = "done"
    /\ UNCHANGED <<doc_title, user_email, drive_answers, drive_files>>
    /\ UNCHANGED beside_report

\* Line 368.
ReturnDoc ==
    /\ rpc = "shared" \/ (rpc = "created" /\ user_email = "")
    /\ doc_result' = SuccessResult("url")
    /\ rpc' = "done"
    /\ UNCHANGED <<doc_title, user_email, drive_answers, drive_files>>
    /\ UNCHANGED beside_report

\* The session of a channel that went through every stage, at Step 8, no
\* report created yet.
FullSession(id) ==
    [LockedSession(EmptySession, id) EXCEPT
        !.current_step = 8, !.videos_df = "rows", !.comments_df = "q",
        !.channel_analysis_result = "r1", !.comment_analysis_result = "r1",
        !.insight_analysis_result = "r1", !.commercialization_result = "r1",
        !.bvp_result = "r1", !.funnel_analysis_result = "r1",
        !.final_product_description = "r1", !.final_edited_insights = "r1"]

\* States of the script in which create_gdoc may be clicked (lines 436-443):
\* right after the lock, and with every artifact produced.
ReportSessions ==
    {[session |-> LockedSession(EmptySession, id),
      widgets |-> [desc_ai |-> NULL, desc_manual |-> NULL],
      last |-> [button |-> "lock_channel", outcome |-> "ok"],
      ever_commercialized |-> FALSE,
      bvp_description |-> NULL] : id \in {"UC1", "UC2"}}
    \cup
    {[session |-> FullSession(id),
      widgets |-> [desc_ai |-> "r1", desc_manual |-> NULL],
      last |-> [button |-> "goto_step8", outcome |-> "ok"],
      ever_commercialized |-> TRUE,
      bvp_description |-> "r1"] : id \in {"UC1", "UC2"}}

InitReport ==
    /\ \E r \in ReportSessions :
          /\ session = r.session /\ widgets = r.widgets /\ last = r.last
          /\ ever_commercialized = r.ever_commercialized
          /\ bvp_description = r.bvp_description
    /\ VideosIdle
    /\ CommentsIdle
    /\ FilterIdle
    /\ doc_title = DocTitle(session)
    /\ user_email \in Emails
    /\ drive_answers \in [create : CreateAnswers, permission : PermissionAnswers]
    /\ drive_files = {}
    /\ doc_result = <<>>
    /\ rpc = "start"

NextReport ==
    \/ CreateFile \/ CreateFileNoId \/ CreateFileFails
    \/ GrantAccess \/ GrantAccessFails \/ ReturnDoc

SpecReport == InitReport /\ [][NextReport]_vars

(***************************************************************************)
(* Specifications                                                          *)
(***************************************************************************)
Init ==
    /\ SessionInit
    /\ VideosIdle
    /\ CommentsIdle
    /\ FilterIdle
    /\ ReportIdle

Spec == Init /\ [][Next]_vars

(***************************************************************************)
(* Properties                                                              *)
(***************************************************************************)
Ran(button, outcome) == last.button = button /\ last.outcome = outcome

\* The run that ends in the primed state stored the artifact of the stage.
Produces(key, button) ==
    \/ session[key] = NULL /\ session'[key] # NULL
    \/ last'.button = button /\ last'.outcome \in {"ok", "placeholder"}

\* C1: a stage produces its artifact only if its prerequisites are in the
\* session when it runs: channel analysis needs the video catalog, pain-point
\* analysis the comment set, insight the channel analysis and the pain points,
\* monetization the insight, BVP the insight, funnel the insight and the BVP.
C1_StageNeedsPrerequisites ==
    [][ /\ Produces("channel_analysis_result", "openai_channel_analysis")
            => session.videos_df # NULL
        /\ Produces("comment_analysis_result", "openai_comment_analysis")
            => session.comments_df # NULL
        /\ Produces("insight_analysis_result", "openai_insight_analysis")
            => /\ session.channel_analysis_result # NULL
               /\ session.comment_analysis_result # NULL
        /\ Produces("commercialization_result", "openai_commercialization_analysis")
            => session.insight_analysis_result # NULL
        /\ Produces("bvp_result", "openai_bvp_analysis")
            => session.insight_analysis_result # NULL
        /\ Produces("funnel_analysis_result", "openai_funnel_analysis")
            => /\ session.insight_analysis_result # NULL
               /\ session.bvp_result # NULL
      ]_vars

C1_Witness ==
    /\ Ran("openai_funnel_analysis", "ok")
    /\ session.funnel_analysis_result # NULL
    /\ session.insight_analysis_result # NULL
    /\ session.bvp_result # NULL

\* C2: a successful lock with id, from any state, leaves a session that holds
\* exactly the channel id typed, its uploads reference and title and the
\* cursor 2: no catalog, comment set, artifact or report link survives it.
C2_LockDiscardsSession ==
    [][ \A id \in ChannelInputs :
          (last'.button = "lock_channel" /\ last'.outcome = "ok" /\ lock_channel_ok(id))
          => /\ session'.channel_id = id
             /\ session'.uploads_id = UploadsOf(id)
             /\ session'.channel_title = TitleOf(id)
             /\ session'.current_step = 2
             /\ \A k \in Keys \ {"channel_id", "uploads_id", "channel_title",
                                 "current_step"} : session'[k] = NULL
             /\ widgets' = [desc_ai |-> NULL, desc_manual |-> NULL]
      ]_vars

\* A lock that found a full session: a monetization artifact was stored earlier
\* in the run, and nothing of it is left.
C2_Witness ==
    /\ Ran("lock_channel", "ok")
    /\ ever_commercialized
    /\ session.current_step = 2
    /\ session.commercialization_result = NULL
    /\ session.videos_df = NULL

\* C3: between two successful locks no operator action lowers the cursor.
C3_CursorNeverLowered ==
    [][ ~(last'.button = "lock_channel" /\ last'.outcome = "ok")
          => session'.current_step >= session.current_step ]_vars

\* C4: after an earlier stage is run again, the artifacts of the later stages
\* that depend on it are no longer in the session.
C4_RerunInvalidatesDownstream ==
    /\ Ran("openai_channel_analysis", "ok")
         => \A k \in {"insight_analysis_result", "commercialization_result",
                      "bvp_result", "funnel_analysis_result"} : session[k] = NULL
    /\ Ran("fetch_comments", "ok")
         => \A k \in {"comment_analysis_result", "insight_analysis_result",
                      "commercialization_result", "bvp_result",
                      "funnel_analysis_result"} : session[k] = NULL
    /\ (Ran("openai_comment_analysis", "ok") \/ Ran("openai_comment_analysis", "placeholder"))
         => \A k \in {"insight_analysis_result", "commercialization_result",
                      "bvp_result", "funnel_analysis_result"} : session[k] = NULL
    /\ Ran("openai_insight_analysis", "ok")
         => \A k \in {"commercialization_result", "bvp_result",
                      "funnel_analysis_result"} : session[k] = NULL
    /\ Ran("openai_commercialization_analysis", "ok")
         => \A k \in {"bvp_result", "funnel_analysis_result"} : session[k] = NULL
    /\ Ran("openai_bvp_analysis", "ok")
         => session.funnel_analysis_result = NULL

\* C5: the Step 8 view "all analysis steps are done" is shown only when the
\* funnel artifact exists and the cursor has been advanced past Step 7.
C5_CompleteOnlyAfterStep7 ==
    Step8Shown(session)
        => session.funnel_analysis_result # NULL /\ session.current_step = 8

\* C6: the cursor never runs ahead of the artifacts: cursor >= 2 needs the
\* lock, >= 3 the catalog and the channel analysis, >= 4 the pain points,
\* >= 5 the insight, >= 7 the BVP, = 8 the funnel; so no "missing earlier
\* result" warning branch of Steps 3 to 7 is ever taken.
C6_NoPrerequisiteMissing ==
    /\ session.current_step >= 2
         => /\ session.channel_id # NULL
            /\ session.uploads_id # NULL
            /\ session.channel_title # NULL
    /\ session.current_step >= 3
         => session.videos_df # NULL /\ session.channel_analysis_result # NULL
    /\ session.current_step >= 4 => session.comment_analysis_result # NULL
    /\ session.current_step >= 5 => session.insight_analysis_result # NULL
    /\ session.current_step >= 7 => session.bvp_result # NULL
    /\ session.current_step = 8 => session.funnel_analysis_result # NULL
    /\ ~Step3PrerequisiteMissing(session)
    /\ ~Step4PrerequisiteMissing(session)
    /\ ~Step5PrerequisiteMissing(session)
    /\ ~Step6PrerequisiteMissing(session)
    /\ ~Step7PrerequisiteMissing(session)

C6_Witness ==
    /\ session.current_step = 8
    /\ \A k \in ArtifactKeys : session[k] # NULL
    /\ session.videos_df # NULL /\ session.comments_df # NULL

\* C7: skipping monetization leaves the BVP stage reachable: after "skip to
\* Step 6" the hand-written description field is offered with no monetization
\* artifact in the session, and with a non-blank description and non-blank
\* insights the BVP request is accepted without one.
C7_SkipKeepsBvpReachable ==
    /\ Ran("skip_step5", "ok")
         => /\ session.current_step = 6
            /\ Step6Visible(session)
            /\ session.commercialization_result = NULL
            /\ widgets.desc_manual # NULL
            /\ \E t \in OperatorTexts : ENABLED edit_product_description(t)
    /\ (/\ Step6Visible(session)
        /\ session.commercialization_result = NULL
        /\ ~IsBlank(session.final_product_description))
         => ENABLED openai_bvp_analysis_ok("p1", "r1")

\* The BVP artifact produced from a hand-written description in a run that
\* never held a monetization artifact.
C7_Witness ==
    /\ Ran("openai_bvp_analysis", "ok")
    /\ ~ever_commercialized
    /\ session.bvp_result # NULL
    /\ session.commercialization_result = NULL
    /\ widgets.desc_manual = "p1"
    /\ session.final_product_description = "p1"

LLMButtons == {"openai_channel_analysis", "openai_comment_analysis",
               "openai_insight_analysis", "openai_commercialization_analysis",
               "openai_bvp_analysis", "openai_funnel_analysis"}

\* C8: a failed LLM call of any stage leaves the session as it was: no artifact
\* stored or changed, the cursor where it was, every other key unchanged.
C8_FailedCallChangesNothing ==
    [][ (last'.button \in LLMButtons /\ last'.outcome = "failed")
          => session' = session ]_vars

\* C9: a lock attempt with an empty id or an id that resolves to no items
\* changes nothing in the session.
C9_FailedLockChangesNothing ==
    [][ (last'.button = "lock_channel" /\ last'.outcome \in {"rejected", "notfound"})
          => session' = session /\ widgets' = widgets ]_vars

\* A NotFound attempt made on a session that holds every artifact.
C9_Witness ==
    /\ Ran("lock_channel", "notfound")
    /\ session.current_step = 8
    /\ \A k \in ArtifactKeys : session[k] # NULL
    /\ session.final_product_description # NULL

\* C10: for every cap and every catalog size get_channel_videos returns at
\* most max_videos rows.
C10_AtMostCapVideos ==
    pc = "done" => Len(videos) <= max_videos

\* C11: when the catalog holds fewer videos than the cap and every request
\* succeeds, get_channel_videos returns exactly one row per catalog video, in
\* catalog order: none dropped, none twice.
C11_OneRowPerVideo ==
    (pc = "done" /\ catalog < max_videos)
        => videos = [k \in 1..catalog |-> k]

\* A catalog of three pages and three detail batches below the default cap.
C11_Witness ==
    /\ pc = "done"
    /\ catalog = MaxCatalog
    /\ catalog < max_videos
    /\ Len(videos) = catalog
    /\ batch_start > 2 * BatchSize

\* C12: when the comment window selects no video (or the catalog is empty),
\* comment collection ends without error with an empty comment set, and the
\* pain-point analysis run on that empty set stores the placeholder without a
\* call to the LLM, after which the operator can advance to Step 4.
C12_EmptyWindowGivesPlaceholder ==
    [][ /\ last'.button = "fetch_comments" => last'.outcome = "ok"
        /\ (last'.button = "openai_comment_analysis" /\ session.comments_df = "empty")
              => /\ last'.outcome = "placeholder"
                 /\ session'.comment_analysis_result = PLACEHOLDER
      ]_vars

\* C13: with a comment set that is not empty but holds no question-like
\* comment, the pain-point analysis takes the branch without an LLM call and
\* stores the fixed placeholder; the placeholder is an artifact like any other:
\* "go to Step 4" is offered, and at Step 4 the insight analysis is offered.
C13_PlaceholderIsArtifact ==
    /\ (last.button = "openai_comment_analysis" /\ session.comments_df = "noq")
          => /\ last.outcome = "placeholder"
             /\ session.comment_analysis_result = PLACEHOLDER
             /\ ENABLED goto_step4
    /\ (/\ session.comment_analysis_result = PLACEHOLDER
        /\ session.channel_analysis_result # NULL
        /\ session.current_step >= 4)
          => /\ InsightAvailable(session)
             /\ ENABLED openai_insight_analysis_ok("r1")

\* The insight artifact produced over the placeholder.
C13_Witness ==
    /\ Ran("openai_insight_analysis", "ok")
    /\ session.comments_df = "noq"
    /\ session.comment_analysis_result = PLACEHOLDER
    /\ session.insight_analysis_result # NULL
    /\ session.current_step = 4

\* The rows of a table, as a set.
Rows(table) == {table[j] : j \in 1..Len(table)}

\* The videos of the table passed in that lie inside the window.
InWindow == {videos_df[k].video_id : k \in {j \in 1..Len(videos_df) :
                                               videos_df[j].publishedAt >= Now - days}}

\* Every top-level comment of a video not written under the name left out.
OthersComments(vid) ==
    {[video_id |-> vid, author |-> threads[vid].pages[p][k], id |-> <<p, k>>] :
        <<p, k>> \in {<<p, k>> \in (1..MaxPages + 1) \X (1..2) :
                          /\ p <= Len(threads[vid].pages)
                          /\ k <= Len(threads[vid].pages[p])
                          /\ threads[vid].pages[p][k] # channel_name}}

\* C14: when the request for any page of a video's comment threads fails, the
\* returned set holds no comment of that video, not even of the pages fetched
\* before the failure; the comments of every other video in the window are
\* all collected, and the collection returns.
C14_FailedVideoSkippedEntirely ==
    cpc = "done"
        => \A vid \in InWindow :
              IF threads[vid].fails # 0
              THEN \A r \in Rows(all_comments) : r.video_id # vid
              ELSE OthersComments(vid) \subseteq Rows(all_comments)

\* C15: over the same videos, the same clock and the same API answers, every
\* comment collected with a window is also collected with any longer window.
C15_MonotoneInWindow ==
    cpc = "done"
        => \A w \in Windows :
              w < days => Rows(get_recent_comments(videos_df, w, channel_name))
                             \subseteq Rows(all_comments)

\* The long window collects comments the short one collects, and more.
C15_Witness ==
    /\ cpc = "done"
    /\ days = 180
    /\ get_recent_comments(videos_df, 7, channel_name) # <<>>
    /\ Len(get_recent_comments(videos_df, 7, channel_name)) < Len(all_comments)

\* C16: the collected set holds no top-level comment whose author display
\* name is the channel name passed in, and holds every other top-level
\* comment of every video in the window whose pages were all fetched.
C16_OwnerCommentsExcluded ==
    cpc = "done"
        => /\ \A r \in Rows(all_comments) : r.author # channel_name
           /\ \A vid \in InWindow :
                 threads[vid].fails = 0
                    => OthersComments(vid) \subseteq Rows(all_comments)

\* A video in the window, all of its pages fetched, with a comment of the
\* channel on its second page; a fan's comment of that page is collected.
C16_Witness ==
    /\ cpc = "done"
    /\ channel_name = "Title1"
    /\ "v1" \in InWindow
    /\ threads["v1"].fails = 0
    /\ Len(threads["v1"].pages) = 2
    /\ threads["v1"].pages[2] = <<"Title1", "Fan">>
    /\ [video_id |-> "v1", author |-> "Fan", id |-> <<2, 2>>] \in Rows(all_comments)

\* The markers of a question, as the specification lists them:
\* ? U+FF1F and the words for how, why, can, may and the question particles.
QuestionMarkers ==
    {<<"?">>, <<"?f">>, <<"zen", "me_t">>, <<"ru", "he">>, <<"wei_t", "shen", "me_t">>,
     <<"ma_t">>, <<"neng", "bu", "neng">>, <<"ke", "bu", "ke", "yi">>,
     <<"zen", "me_s">>, <<"wei_s", "shen", "me_s">>, <<"ma_s">>}

\* The text contains the marker as a run of consecutive characters.
ContainsMarker(text, marker) ==
    \E i \in 0..(Len(text) - Len(marker)) : SubSeq(text, i + 1, i + Len(marker)) = marker

\* C17: the question filter retains exactly the comments whose text contains
\* at least one of the markers ? U+FF1F and the nine words; a text with none
\* of them and a missing text are never retained, and every call gives the
\* same answer for the same text.
C17_FilterRetainsQuestions ==
    filter_calls > 0
        => (retained = "kept"
              <=> /\ comment_text # NaN
                  /\ \E m \in QuestionMarkers : ContainsMarker(comment_text, m))

\* A text retained, at the last call too, for a marker in its middle.
C17_Witness ==
    /\ filter_calls = MaxCalls
    /\ comment_text = <<"zhe", "ge", "zen", "me_t", "zan">>
    /\ retained = "kept"

\* C19: when the document is created in the store but granting access fails,
\* what create_blank_doc_in_folder returns still carries the reference of the
\* created document and is not a result a failed creation returns.
C19_PartialSuccessSurfaced ==
    (/\ rpc = "done"
     /\ drive_answers.create.kind = "ok"
     /\ drive_files # {}
     /\ user_email # ""
     /\ drive_answers.permission.kind # "ok")
        => /\ doc_result.doc_url # NULL
           /\ doc_result \notin {FailureResult(m) : m \in ErrorMessages}

\* The text the specification gives the exported document: the label of each
\* stage, in pipeline order, each followed by the artifact of the stage.
ReportText(s) ==
    <<"channel_analysis", s.channel_analysis_result,
      "pain_points", s.comment_analysis_result,
      "insight", s.insight_analysis_result,
      "monetization", s.commercialization_result,
      "bvp", s.bvp_result,
      "funnel", s.funnel_analysis_result>>

\* C20: exporting a session that holds the artifacts of all six stages yields
\* a document whose text is the six stage labels in pipeline order, each
\* immediately followed by the text of its artifact.
C20_ReportHoldsArtifacts ==
    (/\ rpc = "done"
     /\ doc_result.error = NULL
     /\ \A k \in ArtifactKeys : session[k] # NULL)
        => \E f \in drive_files :
              /\ f.webViewLink = doc_result.doc_url
              /\ f.text = ReportText(session)

\* Concatenation of the first k of a sequence of id lists.
RECURSIVE Concat(_, _)
Concat(lists, k) == IF k = 0 THEN <<>> ELSE Concat(lists, k - 1) \o lists[k]

\* C18: the details of n collected ids, n within the cap, are requested in
\* ceil(n/50) requests; every request but possibly the last carries exactly 50
\* ids, none carries more than 50 or none at all, and the requests taken in
\* order are the collected id list.
C18_DetailBatchesPartition ==
    (pc = "done" /\ Len(video_ids) <= max_videos)
        => LET n == Len(video_ids)
               r == Len(detail_requests)
           IN  /\ r = (n + 49) \div 50
               /\ \A j \in 1..r : Len(detail_requests[j]) \in 1..50
               /\ \A j \in 1..(r - 1) : Len(detail_requests[j]) = 50
               /\ Concat(detail_requests, r) = video_ids

\* 120 ids under the default cap: requests of 50, 50 and 20 ids.
C18_Witness ==
    /\ pc = "done"
    /\ max_videos = DefaultMaxVideos
    /\ Len(video_ids) = 120
    /\ Len(detail_requests) = 3
    /\ Len(detail_requests[1]) = 50
    /\ Len(detail_requests[2]) = 50
    /\ Len(detail_requests[3]) = 20

\* The rows of the requests that did not fail, in order.
RECURSIVE RowsOfOtherBatches(_, _, _)
RowsOfOtherBatches(requests, failing, k) ==
    IF k = 0 THEN <<>>
    ELSE RowsOfOtherBatches(requests, failing, k - 1)
            \o (IF k = failing THEN <<>> ELSE requests[k])

\* C21: when one request for video details fails, get_channel_videos still
\* returns, and the table it returns holds the videos of every other batch
\* (the videos of the failed batch being the count of missing videos).
C21_BatchFailureCounted ==
    (/\ pc \in {"done", "raised"}
     /\ failing_batch \in 1..Len(detail_requests))
        => /\ pc = "done"
           /\ videos = RowsOfOtherBatches(detail_requests, failing_batch,
                                          Len(detail_requests))

\* C22 as stated: once a stage artifact is in the session, no operator action
\* other than a successful channel lock removes it.
C22_ArtifactsAppendOnly ==
    [][ ~(last'.button = "lock_channel" /\ last'.outcome = "ok")
          => \A k \in ArtifactKeys : session[k] # NULL => session'[k] # NULL ]_vars

\* C22, amended: a stage artifact in the session is removed only by a
\* successful channel lock, or by "skip to Step 6", which removes the
\* monetization artifact and no other.
C22_RemovedOnlyByLockOrSkip ==
    [][ \A k \in ArtifactKeys :
          (session[k] # NULL /\ session'[k] = NULL)
            => \/ last'.button = "lock_channel" /\ last'.outcome = "ok"
               \/ last'.button = "skip_step5" /\ k = "commercialization_result" ]_vars

\* A skip made on a session that held every artifact: the monetization
\* artifact is gone, the five others are kept.
C22_Witness ==
    /\ Ran("skip_step5", "ok")
    /\ ever_commercialized
    /\ session.commercialization_result = NULL
    /\ \A k \in ArtifactKeys \ {"commercialization_result"} : session[k] # NULL

\* C23: once the video catalog is in the session, no action (further use of
\* Step 2 included) changes or replaces it until the next successful channel
\* lock; so it is collected at most once per channel session.
C23_CatalogImmutable ==
    [][ (session.videos_df # NULL
         /\ ~(last'.button = "lock_channel" /\ last'.outcome = "ok"))
          => /\ session'.videos_df = session.videos_df
             /\ last'.button # "fetch_videos" ]_vars

\* Step 2 used again, at the end of the pipeline, with the catalog in place.
C23_Witness ==
    /\ Ran("openai_channel_analysis", "ok")
    /\ session.videos_df = "rows"
    /\ session.current_step = 8
    /\ session.funnel_analysis_result # NULL

\* C24: the ids collected are the ids of the pages received, in the order
\* received; a page is requested only at the start of the call or after a
\* response that carried a next cursor while fewer ids than the cap were
\* collected; and the paging loop ends.
C24_PagingTerminates ==
    /\ [](video_ids = [k \in 1..Len(video_ids) |-> k] /\ Len(video_ids) <= catalog)
    /\ [][ FetchPage
             => \/ video_ids = <<>> /\ next_page_token = NoToken
                \/ next_page_token # NoToken /\ Len(video_ids) < max_videos ]_vars
    /\ <>(pc # "paging")

\* Paging stopped by the cap after two pages, the cursor of a third in hand.
C24_Witness ==
    /\ pc = "details"
    /\ catalog = MaxCatalog
    /\ max_videos = MaxCap
    /\ Len(video_ids) = 2 * PageSize
    /\ next_page_token # NoToken

\* C25: the product description every funnel request receives is not blank
\* and is the description the BVP artifact in the session was produced from.
C25_FunnelUsesBvpDescription ==
    [][ last'.button = "openai_funnel_analysis"
          => /\ ~IsBlank(FunnelCallDescription(session))
             /\ FunnelCallDescription(session) = bvp_description ]_vars

\* C26: a monetization request with blank insights, and a BVP request with
\* a blank product description or blank insights, issues no LLM call (it can
\* neither store a result nor fail in the call), and the run that rejects it
\* leaves commercialization_result, bvp_result, final_edited_insights and
\* the cursor as they were.
C26_BlankInputRejected ==
    /\ [](/\ ~ENABLED openai_commercialization_analysis_ok("", "r1")
          /\ ~ENABLED openai_commercialization_analysis_error("")
          /\ ~ENABLED openai_bvp_analysis_ok("", "r1")
          /\ ~ENABLED openai_bvp_analysis_error("")
          /\ IsBlank(session.final_product_description)
                => /\ ~ENABLED openai_bvp_analysis_ok("p1", "r1")
                   /\ ~ENABLED openai_bvp_analysis_error("p1"))
    /\ [][ (/\ last'.button \in {"openai_commercialization_analysis",
                                  "openai_bvp_analysis"}
            /\ last'.outcome = "rejected")
              => /\ session'.commercialization_result = session.commercialization_result
                 /\ session'.bvp_result = session.bvp_result
                 /\ session'.final_edited_insights = session.final_edited_insights
                 /\ session'.current_step = session.current_step ]_vars

\* A BVP request rejected for a blank description, on a session that holds
\* an earlier BVP artifact and its insights.
C26_Witness ==
    /\ Ran("openai_bvp_analysis", "rejected")
    /\ IsBlank(session.final_product_description)
    /\ session.bvp_result # NULL
    /\ session.final_edited_insights # NULL

\* C27: the cursor is always one of 1..8; it is 2 or more exactly when
\* channel_id, uploads_id and channel_title are all in the session; and these
\* three keys change only in a successful channel lock.
C27_CursorAndLock ==
    /\ [](/\ session.current_step \in 1..8
          /\ session.current_step >= 2
                <=> /\ session.channel_id # NULL
                    /\ session.uploads_id # NULL
                    /\ session.channel_title # NULL)
    /\ [][ (\/ session'.channel_id # session.channel_id
            \/ session'.uploads_id # session.uploads_id
            \/ session'.channel_title # session.channel_title)
              => last'.button = "lock_channel" /\ last'.outcome = "ok" ]_vars

\* A lock attempt that failed in the lookup, made at Step 8 on the second
\* channel of the run: the cursor and the three keys are as before.
C27_Witness ==
    /\ Ran("lock_channel", "failed")
    /\ session.current_step = 8
    /\ session.channel_id = "UC2"
    /\ session.uploads_id = "UU2"
    /\ session.channel_title = "Title2"

====
